---- MODULE Spec2Model ----
(***************************************************************************)
(* Model of HW11.PY: three numerical solvers of the boundary-value problem *)
(*     y'' + (x+1) y' - 2 y = (1 - x^2) e^(-x),   y(0) = 1,  y(1) = 2      *)
(* (shooting, finite differences, variational) and the script that runs    *)
(* them and prints / plots the three solution vectors.                     *)
(*                                                                         *)
(* Numbers.  The program computes in IEEE double precision.  The model     *)
(* computes in exact rational arithmetic: a number is a reduced fraction   *)
(* whose numerator and denominator are arbitrary-precision integers (the   *)
(* 32-bit integers of the model checker cannot hold the solution of an     *)
(* 11 x 11 system).  Rounding error is therefore not modelled; everything  *)
(* that the program decides by the VALUE of a number (grid length, matrix  *)
(* entries, the solution of the linear system) is computed, not assumed.   *)
(*                                                                         *)
(* Style.  A value that is used more than once is bound once, by           *)
(* Bind(value, LAMBDA name : ...), where the source binds a local name.    *)
(***************************************************************************)
EXTENDS Integers, Sequences, FiniteSets, TLC

Bind(e, F(_)) == F(e)

(***************************************************************************)
(* Arbitrary-precision naturals: little-endian sequences of base-10000     *)
(* limbs without leading zero limbs; <<>> is 0.                            *)
(***************************************************************************)
RECURSIVE MTrim(_)
MTrim(m) ==
    IF m = <<>> THEN <<>>
    ELSE IF m[Len(m)] = 0 THEN MTrim(SubSeq(m, 1, Len(m) - 1)) ELSE m

RECURSIVE MFromNat(_)
MFromNat(k) ==
    IF k = 0 THEN <<>> ELSE <<k % 10000>> \o MFromNat(k \div 10000)

\* the value of a magnitude as a model-checker integer (below 2^31 only)
RECURSIVE MToNat(_)
MToNat(m) == IF m = <<>> THEN 0 ELSE m[1] + 10000 * MToNat(Tail(m))

RECURSIVE MCmpFrom(_, _, _)
MCmpFrom(a, b, k) ==
    IF k = 0 THEN 0
    ELSE IF a[k] < b[k] THEN -1
    ELSE IF a[k] > b[k] THEN 1
    ELSE MCmpFrom(a, b, k - 1)

MCmp(a, b) ==
    IF Len(a) < Len(b) THEN -1
    ELSE IF Len(a) > Len(b) THEN 1
    ELSE MCmpFrom(a, b, Len(a))

RECURSIVE MAddC(_, _, _, _)
MAddC(a, b, k, c) ==
    IF k > Len(a) /\ k > Len(b) THEN (IF c = 0 THEN <<>> ELSE <<c>>)
    ELSE LET s == (IF k > Len(a) THEN 0 ELSE a[k])
                  + (IF k > Len(b) THEN 0 ELSE b[k]) + c
         IN  <<s % 10000>> \o MAddC(a, b, k + 1, s \div 10000)

MAdd(a, b) == MAddC(a, b, 1, 0)

\* a - b for a >= b
RECURSIVE MSubC(_, _, _, _)
MSubC(a, b, k, c) ==
    IF k > Len(a) THEN <<>>
    ELSE LET s == a[k] - (IF k > Len(b) THEN 0 ELSE b[k]) - c
         IN  <<IF s < 0 THEN s + 10000 ELSE s>>
             \o MSubC(a, b, k + 1, IF s < 0 THEN 1 ELSE 0)

MSub(a, b) == MTrim(MSubC(a, b, 1, 0))

RECURSIVE MMulLimbC(_, _, _, _)
MMulLimbC(a, d, k, c) ==
    IF k > Len(a) THEN (IF c = 0 THEN <<>> ELSE <<c>>)
    ELSE LET s == a[k] * d + c
         IN  <<s % 10000>> \o MMulLimbC(a, d, k + 1, s \div 10000)

MMulLimb(a, d) == IF d = 0 THEN <<>> ELSE MMulLimbC(a, d, 1, 0)

MShift(m) == IF m = <<>> THEN <<>> ELSE <<0>> \o m

RECURSIVE MMulFrom(_, _, _)
MMulFrom(a, b, k) ==
    IF k > Len(b) THEN <<>>
    ELSE MAdd(MMulLimb(a, b[k]), MShift(MMulFrom(a, b, k + 1)))

MMul(a, b) ==
    IF a = <<>> \/ b = <<>> THEN <<>>
    ELSE IF Len(a) >= Len(b) THEN MMulFrom(a, b, 1) ELSE MMulFrom(b, a, 1)

\* the largest limb d in lo..hi with d * b <= r  (lo * b <= r is given)
RECURSIVE MQuotLimb(_, _, _, _)
MQuotLimb(r, b, lo, hi) ==
    IF lo >= hi THEN lo
    ELSE LET mid == (lo + hi + 1) \div 2
         IN  IF MCmp(MMulLimb(b, mid), r) <= 0
             THEN MQuotLimb(r, b, mid, hi)
             ELSE MQuotLimb(r, b, lo, mid - 1)

\* bounds of the quotient limb of r by b (b <= r < 10000 * b), from the
\* leading limbs of r and b
QuotLo(r, b) ==
    LET t  == Len(b)
        lo == IF Len(r) > t
              THEN (r[t + 1] * 10000 + r[t]) \div (b[t] + 1)
              ELSE IF t >= 2
              THEN (r[t] * 10000 + r[t - 1]) \div (b[t] * 10000 + b[t - 1] + 1)
              ELSE r[t] \div b[t]
    IN  IF lo < 1 THEN 1 ELSE lo

QuotHi(r, b) ==
    LET t  == Len(b)
        hi == IF Len(r) > t
              THEN (r[t + 1] * 10000 + r[t]) \div b[t]
              ELSE IF t >= 2
              THEN (r[t] * 10000 + r[t - 1]) \div (b[t] * 10000 + b[t - 1])
              ELSE r[t] \div b[t]
    IN  IF hi > 9999 THEN 9999 ELSE hi

\* long division of a by b # 0, most significant limb of a first: k is the
\* next limb of a, q and r the quotient and the remainder so far
RECURSIVE MDivStep(_, _, _, _, _)
RECURSIVE MDivLimb(_, _, _, _, _)
RECURSIVE MDivSub(_, _, _, _, _, _)
MDivStep(a, b, k, q, r) ==
    IF k = 0 THEN [q |-> MTrim(q), r |-> r]
    ELSE MDivLimb(a, b, k, q, MTrim(<<a[k]>> \o r))

MDivLimb(a, b, k, q, r1) ==
    IF MCmp(r1, b) < 0 THEN MDivStep(a, b, k - 1, <<0>> \o q, r1)
    ELSE MDivSub(a, b, k, q, r1, MQuotLimb(r1, b, QuotLo(r1, b), QuotHi(r1, b)))

MDivSub(a, b, k, q, r1, d) ==
    MDivStep(a, b, k - 1, <<d>> \o q, MSub(r1, MMulLimb(b, d)))

MDivMod(a, b) ==
    IF MCmp(a, b) < 0 THEN [q |-> <<>>, r |-> a]
    ELSE MDivStep(a, b, Len(a), <<>>, <<>>)

\* Euclid's algorithm, on model-checker integers once both fit
RECURSIVE NGcd(_, _)
NGcd(a, b) == IF b = 0 THEN a ELSE NGcd(b, a % b)

RECURSIVE MGcd(_, _)
MGcd(a, b) ==
    IF b = <<>> THEN a
    ELSE IF Len(a) <= 2 /\ Len(b) <= 2
    THEN MFromNat(NGcd(MToNat(a), MToNat(b)))
    ELSE MGcd(b, MDivMod(a, b).r)

(***************************************************************************)
(* Exact rationals: [s |-> sign in {-1,0,1}, n |-> |numerator|,            *)
(* d |-> denominator], reduced, so that equal numbers are equal records.   *)
(***************************************************************************)
Zero == [s |-> 0, n |-> <<>>, d |-> <<1>>]
One  == [s |-> 1, n |-> <<1>>, d |-> <<1>>]
Two  == [s |-> 1, n |-> <<2>>, d |-> <<1>>]

QReduce(s, n, d, g) ==
    IF g = <<1>> THEN [s |-> s, n |-> n, d |-> d]
    ELSE [s |-> s, n |-> MDivMod(n, g).q, d |-> MDivMod(d, g).q]

QMake(s, n, d) ==
    IF n = <<>> \/ s = 0 THEN Zero
    ELSE IF d = <<1>> THEN [s |-> s, n |-> n, d |-> d]
    ELSE QReduce(s, n, d, MGcd(n, d))

Sgn(k) == IF k > 0 THEN 1 ELSE IF k < 0 THEN -1 ELSE 0
Abs(k) == IF k < 0 THEN -k ELSE k

\* the integer k, and the fraction p / q (q # 0) of model-checker integers
Num(k) == [s |-> Sgn(k), n |-> MFromNat(Abs(k)), d |-> <<1>>]
Frac(p, q) == QMake(Sgn(p) * Sgn(q), MFromNat(Abs(p)), MFromNat(Abs(q)))

QSign(a) == a.s
QNeg(a) == [s |-> -a.s, n |-> a.n, d |-> a.d]
QAbs(a) == [s |-> Abs(a.s), n |-> a.n, d |-> a.d]

\* a + b from x = |a.n| * b.d, y = |b.n| * a.d and c = the order of x and y
QSum(a, b, x, y, c) ==
    QMake(IF a.s = b.s \/ c > 0 THEN a.s ELSE IF c < 0 THEN b.s ELSE 0,
          IF a.s = b.s THEN MAdd(x, y)
          ELSE IF c >= 0 THEN MSub(x, y) ELSE MSub(y, x),
          MMul(a.d, b.d))

QCross(a, b, x, y) == QSum(a, b, x, y, MCmp(x, y))

QAdd(a, b) ==
    IF a.s = 0 THEN b
    ELSE IF b.s = 0 THEN a
    ELSE QCross(a, b, MMul(a.n, b.d), MMul(b.n, a.d))

QSub(a, b) == QAdd(a, QNeg(b))

QMul(a, b) ==
    IF a.s = 0 \/ b.s = 0 THEN Zero
    ELSE QMake(a.s * b.s, MMul(a.n, b.n), MMul(a.d, b.d))

\* a / b for b # 0
QDiv(a, b) ==
    IF a.s = 0 THEN Zero
    ELSE QMake(a.s * b.s, MMul(a.n, b.d), MMul(a.d, b.n))

\* the order of a and b: -1, 0 or 1
QCmp(a, b) ==
    IF a.s # b.s THEN Sgn(a.s - b.s)
    ELSE a.s * MCmp(MMul(a.n, b.d), MMul(b.n, a.d))

QLt(a, b) == QCmp(a, b) < 0
QLe(a, b) == QCmp(a, b) <= 0

\* ceil(a) and floor(a) as model-checker integers
QCeilOf(a, dm) ==
    IF a.s >= 0 THEN MToNat(dm.q) + (IF dm.r = <<>> THEN 0 ELSE 1)
    ELSE -MToNat(dm.q)

QCeil(a) == QCeilOf(a, MDivMod(a.n, a.d))
QFloor(a) == -QCeil(QNeg(a))

\* a rounded to the nearest integer, ties to the even one
QRoundOf(a, dm, twice) ==
    QMake(a.s,
          IF twice > 0 \/ (twice = 0 /\ dm.q # <<>> /\ dm.q[1] % 2 = 1)
          THEN MAdd(dm.q, <<1>>) ELSE dm.q,
          <<1>>)

QRoundDiv(a, dm) == QRoundOf(a, dm, MCmp(MMulLimb(dm.r, 2), a.d))

QRound(a) == QRoundDiv(a, MDivMod(a.n, a.d))

(***************************************************************************)
(* Bounds of the model.                                                    *)
(***************************************************************************)
\* the step sizes tried are p / q, |p| <= MaxNum, 1 <= q <= MaxDen
MaxNum == 3
MaxDen == 5
\* np.exp is evaluated by its power series cut after ExpTerms terms
ExpTerms == 5
\* the optimiser searches the parameters k / ParamDen, 0 <= k <= ParamDen
ParamDen == 2

(***************************************************************************)
(* Python values.  A call either returns or raises; Raise(e) is the        *)
(* exception e leaving the call.  Sequences are 1-based here, 0-based in   *)
(* the source: source index i is model index i + 1, source index -1 is     *)
(* model index Len.                                                        *)
(***************************************************************************)
Raise(e) == [ok |-> FALSE, err |-> e]
Return(v) == [ok |-> TRUE, val |-> v]

\* np.exp(x): the power series of e^x, ExpTerms terms
RECURSIVE ExpSeries(_, _, _, _)
ExpSeries(x, k, term, acc) ==
    IF k >= ExpTerms THEN acc
    ELSE Bind(QDiv(QMul(term, x), Num(k)),
              LAMBDA t : ExpSeries(x, k + 1, t, QAdd(acc, t)))

exp(x) == IF ExpTerms = 0 THEN Zero ELSE ExpSeries(x, 1, One, One)

\* np.arange(start, stop, step): ceil((stop - start) / step) points
\* start + i * step; no point when that count is not positive; a zero step
\* raises (ValueError or OverflowError, by the NumPy version)
arange(start, stop, step) ==
    IF QSign(step) = 0 THEN Raise("ValueError")
    ELSE Bind(QCeil(QDiv(QSub(stop, start), step)),
              LAMBDA len : Return([i \in 1..(IF len > 0 THEN len ELSE 0) |->
                                     QAdd(start, QMul(Num(i - 1), step))]))

\* a slip: the stop value 1, which leaves the end point out
GridOpen(h) == arange(Zero, One, h)

\* the grid every solver builds: np.arange(0, 1 + h, h)
Grid(h) == arange(Zero, QAdd(One, h), h)

(***************************************************************************)
(* (a) Shooting method                                                     *)
(***************************************************************************)
\* ode_system(x, Y) with Y = <<y, dy>>: returns <<dy, d2y>>
ode_system(x, Y) ==
    <<Y[2],
      QAdd(QAdd(QMul(QNeg(QAdd(x, One)), Y[2]), QMul(Two, Y[1])),
           QMul(QSub(One, QMul(x, x)), exp(QNeg(x))))>>

\* Y advanced by dt along the slope f
Advance(Y, f, dt) ==
    <<QAdd(Y[1], QMul(dt, f[1])), QAdd(Y[2], QMul(dt, f[2]))>>

\* One explicit Euler step of ode_system from (t, Y) to t1: the model of the
\* integrator's advance between two sample points.
EulerStep(t, Y, t1) == Advance(Y, ode_system(t, Y), QSub(t1, t))

\* the y-samples at t_eval[k..], the integrator being at (t, Y)
RECURSIVE Samples(_, _, _, _)
Samples(t_eval, k, t, Y) ==
    IF k > Len(t_eval) THEN <<>>
    ELSE Bind(IF t_eval[k] = t THEN Y ELSE EulerStep(t, Y, t_eval[k]),
              LAMBDA Y1 : <<Y1[1]>> \o Samples(t_eval, k + 1, t_eval[k], Y1))

\* solve_ivp(ode_system, [0, 1], [1, alpha], t_eval=x_eval): raises ValueError
\* when a sample point lies outside [0, 1]; otherwise sol.y[0], one value per
\* sample point, starting from the state (1, alpha) at x = 0.
solve_shooting(alpha, x_eval) ==
    IF \E k \in 1..Len(x_eval) : x_eval[k].s < 0 \/ QLt(One, x_eval[k])
    THEN Raise("ValueError")
    ELSE Return(Samples(x_eval, 1, Zero, <<One, alpha>>))

\* sol.y[0, -1] - 2; indexing an empty sol.y raises IndexError
LastMinus2(sol) ==
    IF ~sol.ok THEN sol
    ELSE IF Len(sol.val) = 0 THEN Raise("IndexError")
    ELSE Return(QSub(sol.val[Len(sol.val)], Two))

\* boundary_residual(alpha), x_eval being the enclosing function's grid
boundary_residual(alpha, x_eval) == LastMinus2(solve_shooting(alpha, x_eval))

\* Brent's method on the bracket [a, b] with fa = f(a), fb = f(b): ValueError
\* when f(a) and f(b) have the same sign; an exception of f propagates.  The
\* residual is affine in alpha (the equation is linear), so the interpolation
\* step of the method lands on the root: the converged root is returned.
brentq(a, b, fa, fb) ==
    IF ~fa.ok THEN fa
    ELSE IF ~fb.ok THEN fb
    ELSE IF fa.val.s * fb.val.s > 0 THEN Raise("ValueError")
    ELSE IF fa.val.s = 0 THEN Return(a)
    ELSE IF fb.val.s = 0 THEN Return(b)
    ELSE Return(QSub(a, QDiv(QMul(fa.val, QSub(b, a)), QSub(fb.val, fa.val))))

\* root_scalar(boundary_residual, bracket=[a, b], method='brentq').root
root_scalar(x_eval, a, b) ==
    brentq(a, b, boundary_residual(a, x_eval), boundary_residual(b, x_eval))

\* lines 24-27, the grid built
ShootOn(x_eval) ==
    Bind(root_scalar(x_eval, Num(-10), Num(10)),
         LAMBDA sol :
           IF ~sol.ok THEN sol
           ELSE Bind(solve_shooting(sol.val, x_eval),
                     LAMBDA final_sol :
                       IF ~final_sol.ok THEN final_sol
                       ELSE Return([x |-> x_eval, y |-> final_sol.val])))

shooting_method(h) ==
    Bind(Grid(h), LAMBDA x_eval : IF ~x_eval.ok THEN x_eval
                                  ELSE ShootOn(x_eval.val))

(***************************************************************************)
(* (b) Finite-difference method                                            *)
(***************************************************************************)
\* the entries of interior row i, at the grid point xi (lines 45-48)
A_lower(xi, h) == QAdd(QDiv(One, QMul(h, h)), QDiv(QAdd(xi, One), QMul(Two, h)))

\* a slip: the diagonal with + 2
A_diagPlus(h) == QAdd(QDiv(Num(-2), QMul(h, h)), Two)

A_diag(h) == QSub(QDiv(Num(-2), QMul(h, h)), Two)

\* a slip: the upper entry with the sign of the lower one
A_upperPlus(xi, h) ==
    QAdd(QDiv(One, QMul(h, h)), QDiv(QAdd(xi, One), QMul(Two, h)))

A_upper(xi, h) == QSub(QDiv(One, QMul(h, h)), QDiv(QAdd(xi, One), QMul(Two, h)))

\* the right-hand side of interior row i (line 48)
b_interior(xi) == QMul(QSub(One, QMul(xi, xi)), exp(QNeg(xi)))

zeros(n) == [k \in 1..n |-> Zero]

\* a slip: the right boundary value written as 1
BoundaryRowsSameValue(n) ==
    [A |-> [[[k \in 1..n |-> zeros(n)] EXCEPT ![1][1] = One]
               EXCEPT ![n][n] = One],
     b |-> [[zeros(n) EXCEPT ![1] = One] EXCEPT ![n] = One]]

\* A and b after the boundary assignments (lines 33-40), n >= 1:
\* A[0, 0] = 1, b[0] = 1, then A[-1, -1] = 1, b[-1] = 2
BoundaryRows(n) ==
    [A |-> [[[k \in 1..n |-> zeros(n)] EXCEPT ![1][1] = One]
               EXCEPT ![n][n] = One],
     b |-> [[zeros(n) EXCEPT ![1] = One] EXCEPT ![n] = Two]]

\* the loop body for source index i = k - 1 (lines 43-48)
InteriorRow(S, x, h, k) ==
    [A |-> [S.A EXCEPT ![k][k - 1] = A_lower(x[k], h),
                       ![k][k]     = A_diag(h),
                       ![k][k + 1] = A_upper(x[k], h)],
     b |-> [S.b EXCEPT ![k] = b_interior(x[k])]]

\* for i in range(1, n - 1): model rows k = 2 .. n - 1
RECURSIVE InteriorRows(_, _, _, _)
InteriorRows(S, x, h, k) ==
    IF k > Len(x) - 1 THEN S
    ELSE InteriorRows(InteriorRow(S, x, h, k), x, h, k + 1)

\* the linear system of lines 32-48; A[0, 0] = 1 raises IndexError when the
\* grid is empty
LinearSystem(x, h) ==
    IF Len(x) = 0 THEN Raise("IndexError")
    ELSE Return(InteriorRows(BoundaryRows(Len(x)), x, h, 2))

\* the row among r..n of M whose entry in column k is largest in magnitude
RECURSIVE PivotRow(_, _, _, _)
PivotRow(M, k, r, best) ==
    IF r > Len(M) THEN best
    ELSE PivotRow(M, k, r + 1,
                  IF QLt(QAbs(M[best][k]), QAbs(M[r][k])) THEN r ELSE best)

\* Gauss-Jordan elimination with partial pivoting on the augmented matrix M,
\* columns k..n still to eliminate: choose the pivot row p, swap it into row
\* k, scale it, clear column k in the other rows
RECURSIVE Eliminate(_, _)
RECURSIVE Clear(_, _, _)

Clear(M, k, row) ==
    Eliminate([r \in 1..Len(M) |->
                 IF r = k THEN row
                 ELSE IF M[r][k].s = 0 THEN M[r]
                 ELSE [j \in 1..Len(M) + 1 |->
                         QSub(M[r][j], QMul(M[r][k], row[j]))]],
              k + 1)

Scale(M, k) ==
    Clear(M, k, [j \in 1..Len(M) + 1 |-> QDiv(M[k][j], M[k][k])])

Swap(M, k, p) ==
    IF M[p][k].s = 0 THEN Raise("LinAlgError")
    ELSE Scale([M EXCEPT ![k] = M[p], ![p] = M[k]], k)

Eliminate(M, k) ==
    IF k > Len(M) THEN Return([r \in 1..Len(M) |-> M[r][Len(M) + 1]])
    ELSE Swap(M, k, PivotRow(M, k, k, k))

\* scipy.linalg.solve(A, b): the solution of A y = b, LinAlgError when A is
\* singular
solve(A, b) == Eliminate([r \in 1..Len(A) |-> Append(A[r], b[r])], 1)

\* line 50-51 on the system S over the grid x: [ret, A, b], the call's outcome
\* and the linear system it built
SolveOn(x, S, y) ==
    [ret |-> IF ~y.ok THEN y ELSE Return([x |-> x, y |-> y.val]),
     A |-> S.A, b |-> S.b]

\* lines 32-51, the grid built
DifferenceOn(x, h, S) ==
    IF ~S.ok THEN [ret |-> S, A |-> <<>>, b |-> <<>>]
    ELSE SolveOn(x, S.val, solve(S.val.A, S.val.b))

\* finite_difference_method(h): [ret, A, b], the call's outcome and the linear
\* system it built (<<>> when none was built)
finite_difference_method(h) ==
    Bind(Grid(h), LAMBDA x : IF ~x.ok THEN [ret |-> x, A |-> <<>>, b |-> <<>>]
                             ELSE DifferenceOn(x.val, h, LinearSystem(x.val, h)))

(***************************************************************************)
(* (c) Variational method                                                  *)
(***************************************************************************)
\* a slip: the trial function without its constant term
trialNoConstant(x, p) ==
    QAdd(QMul(p[1], x),
         QAdd(QMul(p[2], QMul(x, x)), QMul(p[3], QMul(x, QMul(x, x)))))

\* trial(x, a, b, c) with p = <<a, b, c>>
trial(x, p) ==
    QAdd(QAdd(One, QMul(p[1], x)),
         QAdd(QMul(p[2], QMul(x, x)), QMul(p[3], QMul(x, QMul(x, x)))))

\* np.trapz(y, x), from index k on
RECURSIVE trapzFrom(_, _, _)
trapzFrom(y, x, k) ==
    IF k >= Len(x) THEN Zero
    ELSE QAdd(QDiv(QMul(QSub(x[k + 1], x[k]), QAdd(y[k], y[k + 1])), Two),
              trapzFrom(y, x, k + 1))

trapz(y, x) == trapzFrom(y, x, 1)

\* the residual of the trial function at the grid point xi (lines 61-65)
residual(params, xi) ==
    QSub(QSub(QAdd(QAdd(QMul(Two, params[2]),
                        QMul(Num(6), QMul(params[3], xi))),
                   QMul(QAdd(xi, One),
                        QAdd(params[1],
                             QAdd(QMul(Two, QMul(params[2], xi)),
                                  QMul(Num(3), QMul(params[3], QMul(xi, xi))))))),
              QMul(Two, trial(xi, params))),
         QMul(QSub(One, QMul(xi, xi)), exp(QNeg(xi))))

Square(v) == QMul(v, v)

\* residual_squared(params) over the grid x
residual_squared(params, x) ==
    trapz([k \in 1..Len(x) |-> Square(residual(params, x[k]))], x)

\* the equality constraint: lambda p: trial(1, *p) - 2
cons(p) == QSub(trial(One, p), Two)

\* the parameter triples the optimiser searches
Params ==
    {<<Frac(i, ParamDen), Frac(j, ParamDen), Frac(k, ParamDen)>> :
        i \in 0..ParamDen, j \in 0..ParamDen, k \in 0..ParamDen}

\* the elements at which residual_squared is least over the grid x: todo are
\* the elements not yet looked at, best the least found so far, with value val
RECURSIVE ArgMin(_, _, _, _)
Least(x, todo, best, val, p, v) ==
    IF best = {} \/ QLt(v, val) THEN ArgMin(x, todo \ {p}, {p}, v)
    ELSE IF v = val THEN ArgMin(x, todo \ {p}, best \cup {p}, val)
    ELSE ArgMin(x, todo \ {p}, best, val)

ArgMin(x, todo, best, val) ==
    IF todo = {} THEN best
    ELSE Bind(CHOOSE q \in todo : TRUE,
              LAMBDA p : Least(x, todo, best, val, p, residual_squared(p, x)))

\* minimize(residual_squared, x0, constraints=cons): the OptimizeResults the
\* call can return.  A converged run returns a least point of residual_squared
\* among the searched parameters that satisfy the constraint, with success =
\* True.  minimize raises nothing when the optimiser does not converge: it
\* returns its last iterate with success = False; that outcome is possible
\* when lib says the optimiser may fail.
minimize(x, x0, lib) ==
    {[x |-> p, success |-> TRUE] :
        p \in ArgMin(x, {q \in Params : cons(q).s = 0}, {}, Zero)}
    \cup (IF lib = "may_fail"
          THEN {[x |-> p, success |-> FALSE] : p \in Params \cup {x0}}
          ELSE {})

NoResult == [x |-> <<>>, success |-> TRUE]

\* lines 71-73, the grid built
MinimizeOn(x, lib) ==
    {[ret |-> Return([x |-> x, y |-> [k \in 1..Len(x) |-> trial(x[k], r.x)]]),
      res |-> r] : r \in minimize(x, <<Zero, Zero, Zero>>, lib)}

\* variational_method(h): the outcomes [ret, res] the call can have; res is
\* the OptimizeResult it got (NoResult when minimize was not reached)
variational_method(h, lib) ==
    Bind(Grid(h), LAMBDA x : IF ~x.ok THEN {[ret |-> x, res |-> NoResult]}
                             ELSE MinimizeOn(x.val, lib))

(***************************************************************************)
(* The program state.                                                      *)
(***************************************************************************)
VARIABLES
    h,      \* the step size (line 76 sets 0.1; the model tries others too)
    lib,    \* whether SciPy's optimiser converges or may report failure
    pc,     \* the statement of the script to run next; "call" outside it
    ret,    \* the outcome of each solver call: ret.shoot, ret.fd, ret.var
    A, b,   \* the linear system of the last finite_difference_method call
    res,    \* the OptimizeResult of the last minimize call
    calls,  \* how many times each solver was called
    i,      \* the loop variable of the table (line 90)
    out,    \* the lines printed so far
    fig,    \* the figure: the curves plotted and whether it was shown
    exc     \* the uncaught exception that ended the script, if any

vars == <<h, lib, pc, ret, A, b, res, calls, i, out, fig, exc>>

Pending == [ok |-> FALSE, err |-> "pending"]
NoExc   == [err |-> "none", line |-> 0]

\* the step sizes tried: p / q, and the script's own 0.1
HSet ==
    {Frac(p, q) : p \in -MaxNum..MaxNum, q \in 1..MaxDen} \cup {Frac(1, 10)}

\* a call that raised
Raised(r) == ~r.ok /\ r # Pending

\* the script's names, bound by lines 79, 82 and 85
x_shoot == ret.shoot.val.x
y_shoot == ret.shoot.val.y
x_fd    == ret.fd.val.x
y_fd    == ret.fd.val.y
x_var   == ret.var.val.x
y_var   == ret.var.val.y

\* f"{v:.<digits>f}": v rounded to that many decimals
Rounded(v, scale) == QDiv(QRound(QMul(v, scale)), scale)

format(v, digits) ==
    Rounded(v, IF digits = 2 THEN Num(100) ELSE Num(100000000))

InitCommon ==
    /\ h \in HSet
    /\ ret = [shoot |-> Pending, fd |-> Pending, var |-> Pending]
    /\ A = <<>>
    /\ b = <<>>
    /\ res = NoResult
    /\ calls = [shoot |-> 0, fd |-> 0, var |-> 0]
    /\ i = 0
    /\ out = <<>>
    /\ fig = [open |-> FALSE, curves |-> <<>>, shown |-> FALSE]
    /\ exc = NoExc

(***************************************************************************)
(* The script, lines 75-103.  An exception that leaves a statement is not  *)
(* caught anywhere: the script ends there (pc = "aborted").                *)
(***************************************************************************)
\* after a statement at `line` whose call had outcome r
Continue(r, line, next) ==
    IF r.ok THEN pc' = next /\ exc' = exc
    ELSE pc' = "aborted" /\ exc' = [err |-> r.err, line |-> line]

\* line 79: x_shoot, y_shoot = shooting_method(h)
RunShooting ==
    /\ pc = "shooting"
    /\ \E r \in {shooting_method(h)} :
           /\ ret' = [ret EXCEPT !.shoot = r]
           /\ Continue(r, 79, "finite_difference")
    /\ calls' = [calls EXCEPT !.shoot = @ + 1]
    /\ UNCHANGED <<h, lib, A, b, res, i, out, fig>>

\* line 82: x_fd, y_fd = finite_difference_method(h)
RunFiniteDifference ==
    /\ pc = "finite_difference"
    /\ \E r \in {finite_difference_method(h)} :
           /\ ret' = [ret EXCEPT !.fd = r.ret]
           /\ A' = r.A
           /\ b' = r.b
           /\ Continue(r.ret, 82, "variational")
    /\ calls' = [calls EXCEPT !.fd = @ + 1]
    /\ UNCHANGED <<h, lib, res, i, out, fig>>

\* line 85: x_var, y_var = variational_method(h)
RunVariational ==
    /\ pc = "variational"
    /\ \E r \in variational_method(h, lib) :
           /\ ret' = [ret EXCEPT !.var = r.ret]
           /\ res' = r.res
           /\ Continue(r.ret, 85, "header")
    /\ calls' = [calls EXCEPT !.var = @ + 1]
    /\ UNCHANGED <<h, lib, A, b, i, out, fig>>

\* line 88: the column titles
PrintHeader ==
    /\ pc = "header"
    /\ out' = Append(out, [kind |-> "header"])
    /\ pc' = "rule"
    /\ UNCHANGED <<h, lib, ret, A, b, res, calls, i, fig, exc>>

\* line 89: the rule under them
PrintRule ==
    /\ pc = "rule"
    /\ out' = Append(out, [kind |-> "rule"])
    /\ pc' = "rows"
    /\ i' = 0
    /\ UNCHANGED <<h, lib, ret, A, b, res, calls, fig, exc>>

\* lines 90-91: one row of the table, for i in range(len(x_fd)); reading a
\* vector past its end raises IndexError
PrintRow ==
    /\ pc = "rows"
    /\ i < Len(x_fd)
    /\ IF i < Len(y_shoot) /\ i < Len(y_fd) /\ i < Len(y_var)
       THEN /\ out' = Append(out, [kind     |-> "row",
                                   x        |-> format(x_fd[i + 1], 2),
                                   shooting |-> format(y_shoot[i + 1], 8),
                                   fd       |-> format(y_fd[i + 1], 8),
                                   var      |-> format(y_var[i + 1], 8)])
            /\ i' = i + 1
            /\ UNCHANGED <<pc, exc>>
       ELSE /\ pc' = "aborted"
            /\ exc' = [err |-> "IndexError", line |-> 91]
            /\ UNCHANGED <<out, i>>
    /\ UNCHANGED <<h, lib, ret, A, b, res, calls, fig>>

\* line 94: the loop is over; plt.figure
Figure ==
    /\ pc = "rows"
    /\ i >= Len(x_fd)
    /\ fig' = [fig EXCEPT !.open = TRUE]
    /\ pc' = "plot_shoot"
    /\ UNCHANGED <<h, lib, ret, A, b, res, calls, i, out, exc>>

\* plt.plot(x, y, ..., label): ValueError when x and y differ in length
Plot(at, line, x, y, label, next) ==
    /\ pc = at
    /\ IF Len(x) = Len(y)
       THEN /\ fig' = [fig EXCEPT !.curves = Append(@, [label |-> label,
                                                        x |-> x, y |-> y])]
            /\ pc' = next
            /\ exc' = exc
       ELSE /\ pc' = "aborted"
            /\ exc' = [err |-> "ValueError", line |-> line]
            /\ fig' = fig
    /\ UNCHANGED <<h, lib, ret, A, b, res, calls, i, out>>

\* lines 95-97
PlotShooting == Plot("plot_shoot", 95, x_shoot, y_shoot, "Shooting Method", "plot_fd")
PlotFiniteDifference == Plot("plot_fd", 96, x_fd, y_fd, "Finite Difference", "plot_var")
PlotVariational == Plot("plot_var", 97, x_var, y_var, "Variational Method", "show")

\* lines 98-103: labels, title, legend, grid, plt.show
Show ==
    /\ pc = "show"
    /\ fig' = [fig EXCEPT !.shown = TRUE]
    /\ pc' = "done"
    /\ UNCHANGED <<h, lib, ret, A, b, res, calls, i, out, exc>>

Init ==
    /\ InitCommon
    /\ lib = "converges"
    /\ pc = "shooting"

Next ==
    \/ RunShooting
    \/ RunFiniteDifference
    \/ RunVariational
    \/ PrintHeader
    \/ PrintRule
    \/ PrintRow
    \/ Figure
    \/ PlotShooting
    \/ PlotFiniteDifference
    \/ PlotVariational
    \/ Show

\* the script, SciPy's optimiser converging
Spec == Init /\ [][Next]_vars

InitEnv ==
    /\ InitCommon
    /\ lib \in {"converges", "may_fail"}
    /\ pc = "shooting"

\* the script, SciPy's optimiser converging or reporting failure
SpecEnv == InitEnv /\ [][Next]_vars

(***************************************************************************)
(* The solver functions called on their own with the step size h: each at  *)
(* most once, in any order, SciPy's optimiser converging.                  *)
(***************************************************************************)
CallShooting ==
    /\ pc = "call"
    /\ calls.shoot = 0
    /\ ret' = [ret EXCEPT !.shoot = shooting_method(h)]
    /\ calls' = [calls EXCEPT !.shoot = @ + 1]
    /\ UNCHANGED <<h, lib, pc, A, b, res, i, out, fig, exc>>

CallFiniteDifference ==
    /\ pc = "call"
    /\ calls.fd = 0
    /\ \E r \in {finite_difference_method(h)} :
           /\ ret' = [ret EXCEPT !.fd = r.ret]
           /\ A' = r.A
           /\ b' = r.b
    /\ calls' = [calls EXCEPT !.fd = @ + 1]
    /\ UNCHANGED <<h, lib, pc, res, i, out, fig, exc>>

CallVariational ==
    /\ pc = "call"
    /\ calls.var = 0
    /\ \E r \in variational_method(h, lib) :
           /\ ret' = [ret EXCEPT !.var = r.ret]
           /\ res' = r.res
    /\ calls' = [calls EXCEPT !.var = @ + 1]
    /\ UNCHANGED <<h, lib, pc, A, b, i, out, fig, exc>>

InitCall ==
    /\ InitCommon
    /\ lib = "converges"
    /\ pc = "call"

NextCall == CallShooting \/ CallFiniteDifference \/ CallVariational

SpecCall == InitCall /\ [][NextCall]_vars

(***************************************************************************)
(* Properties.                                                             *)
(***************************************************************************)
Solvers == {"shoot", "fd", "var"}

Called(s) == calls[s] > 0

Tenth == [s |-> 1, n |-> <<1>>, d |-> <<10>>]

\* |v - target| <= tol
Within(v, target, tol) == QLe(QAbs(QSub(v, target)), tol)

\* h = 1 / N for an integer N >= 2
UnitFraction == h.s = 1 /\ h.n = <<1>> /\ h.d # <<1>>

\* the grid x as the specification describes it for the step size h
GridAsSpecified(x) ==
    /\ Len(x) = QFloor(QDiv(One, h)) + 1
    /\ x[1] = Zero
    /\ x[Len(x)] = One
    /\ \A k \in 1..Len(x) - 1 : QLt(x[k], x[k + 1]) /\ QSub(x[k + 1], x[k]) = h
    /\ \A k \in 1..Len(x) : ~QLt(One, x[k])

\* C1: for every step size 0 < h <= 1 the grid a solver builds has
\* floor(1/h) + 1 points, is strictly increasing with spacing h, starts at 0
\* and ends at exactly 1 with no point beyond 1, and the solvers called with
\* the same h obtain the same grid.
C1_GridShape ==
    (h.s > 0 /\ QLe(h, One)) =>
        /\ \A s \in Solvers : ret[s].ok => GridAsSpecified(ret[s].val.x)
        /\ \A s, t \in Solvers :
               ret[s].ok /\ ret[t].ok => ret[s].val.x = ret[t].val.x

\* C2: with a step size h <= 0 or h > 1 every solver call fails: none returns
\* a solution vector, none builds a linear system and none runs the
\* optimiser.
C2_BadStepRejected ==
    (h.s <= 0 \/ QLt(One, h)) =>
        /\ \A s \in Solvers : Called(s) => ~ret[s].ok
        /\ A = <<>>
        /\ res = NoResult

\* C3: the table and the plot are produced only after all three solvers have
\* completed successfully; when one fails (an exception, or the optimiser
\* reporting failure) the run is aborted with no table row and no plot; no
\* solver is called twice.
C3_OutputOnlyAfterSuccess ==
    /\ (out # <<>> \/ fig.open \/ fig.curves # <<>>) =>
           /\ \A s \in Solvers : ret[s].ok
           /\ res.success
    /\ ((\E s \in Solvers : Raised(ret[s])) \/ ~res.success) =>
           /\ pc = "aborted"
           /\ out = <<>>
           /\ ~fig.open
    /\ \A s \in Solvers : calls[s] <= 1

\* C4: when the minimizer reports failure, variational_method returns no
\* solution vector, and nothing computed from the failed parameters reaches
\* the table or the plot.
C4_FailedOptimisationPropagates ==
    ~res.success =>
        /\ ~ret.var.ok
        /\ \A k \in 1..Len(out) : out[k].kind # "row"
        /\ fig.curves = <<>>

\* row k of the n x n matrix M is the unit row e_k
UnitRow(M, k) ==
    \A j \in 1..Len(M) : M[k][j] = IF j = k THEN One ELSE Zero

\* C5: for a grid of n+1 >= 2 points the system of finite_difference_method
\* has row 0 the unit row with b[0] = 1 and row n the unit row with b[n] = 2,
\* and a returned solution has length n+1, y[0] = 1 and y[n] = 2.
C5_BoundaryRows ==
    (Called("fd") /\ Len(A) >= 2) =>
        /\ UnitRow(A, 1)
        /\ b[1] = One
        /\ UnitRow(A, Len(A))
        /\ b[Len(A)] = Two
        /\ ret.fd.ok =>
               /\ Len(y_fd) = Len(x_fd)
               /\ Len(y_fd) = Len(A)
               /\ y_fd[1] = One
               /\ y_fd[Len(y_fd)] = Two

C5_Witness ==
    /\ Called("fd")
    /\ ret.fd.ok
    /\ Len(A) = 3
    /\ y_fd[1] = One
    /\ y_fd[3] = Two

\* the left-hand side of the difference equation at model index k, written
\* out from the claim's formula
DifferenceLhs(x, y, k) ==
    QAdd(QAdd(QMul(QAdd(QDiv(One, QMul(h, h)),
                        QDiv(QAdd(x[k], One), QMul(Two, h))),
                   y[k - 1]),
              QMul(QSub(QDiv(Num(-2), QMul(h, h)), Two), y[k])),
         QMul(QSub(QDiv(One, QMul(h, h)),
                   QDiv(QAdd(x[k], One), QMul(Two, h))),
              y[k + 1]))

DifferenceRhs(x, k) == QMul(QSub(One, QMul(x[k], x[k])), exp(QNeg(x[k])))

\* C6: the solution returned by finite_difference_method satisfies the
\* difference equation at every interior index, and an interior row of A is
\* zero outside the columns i-1, i, i+1.
C6_DifferenceEquation ==
    (Called("fd") /\ ret.fd.ok) =>
        \A k \in 2..Len(x_fd) - 1 :
            /\ DifferenceLhs(x_fd, y_fd, k) = DifferenceRhs(x_fd, k)
            /\ \A j \in 1..Len(A) : A[k][j] # Zero => j \in {k - 1, k, k + 1}

C6_Witness ==
    /\ Called("fd")
    /\ ret.fd.ok
    /\ Len(x_fd) = 11
    /\ DifferenceLhs(x_fd, y_fd, 6) = DifferenceRhs(x_fd, 6)
    /\ y_fd[6] # Zero

\* C7: with h = 1 the grid is [0, 1], A is the 2 x 2 identity and
\* finite_difference_method returns y = [1, 2].
C7_StepOne ==
    (Called("fd") /\ h = One) =>
        /\ ret.fd.ok
        /\ x_fd = <<Zero, One>>
        /\ A = <<<<One, Zero>>, <<Zero, One>>>>
        /\ y_fd = <<One, Two>>

C7_Witness ==
    /\ Called("fd")
    /\ h = One
    /\ ret.fd.ok
    /\ y_fd = <<One, Two>>

\* the sum of the magnitudes of the off-diagonal entries of row k of M
RECURSIVE OffDiagonalSum(_, _, _)
OffDiagonalSum(M, k, j) ==
    IF j > Len(M) THEN Zero
    ELSE QAdd(IF j = k THEN Zero ELSE QAbs(M[k][j]), OffDiagonalSum(M, k, j + 1))

\* C9: with h = 0.1 every solver returns 11 values, the first 1 and the last
\* 2 (within 1e-6 for shooting and finite differences, 1e-4 for the
\* variational method), and the table loop never reads a vector out of range.
C9_ElevenEntries ==
    (h = Tenth) =>
        /\ \A s \in Solvers :
               Called(s) =>
                   /\ ret[s].ok
                   /\ Len(ret[s].val.y) = 11
                   /\ ret[s].val.y[1] = One
                   /\ Within(ret[s].val.y[11], Two,
                             IF s = "var" THEN Frac(1, 10000)
                             ELSE Frac(1, 1000000))
        /\ exc.err # "IndexError"
        /\ (pc = "rows" /\ i < Len(x_fd)) =>
               i < Len(y_shoot) /\ i < Len(y_fd) /\ i < Len(y_var)

C9_Witness ==
    /\ h = Tenth
    /\ pc = "done"
    /\ Len(out) = 13
    /\ out[13].kind = "row"
    /\ out[13].x = One

\* C10: for h = 1/N, N >= 2, every row of A is strictly diagonally dominant:
\* a boundary row is a unit row, an interior row has both off-diagonal
\* entries positive with sum 2/h^2 < |A[i,i]| = 2/h^2 + 2; and the direct
\* solve does not fail.
C10_DiagonallyDominant ==
    (Called("fd") /\ UnitFraction) =>
        /\ Len(A) >= 3
        /\ UnitRow(A, 1)
        /\ UnitRow(A, Len(A))
        /\ \A k \in 2..Len(A) - 1 :
               /\ A[k][k - 1].s > 0
               /\ A[k][k + 1].s > 0
               /\ QAdd(A[k][k - 1], A[k][k + 1]) = QDiv(Two, QMul(h, h))
               /\ QAbs(A[k][k]) = QAdd(QDiv(Two, QMul(h, h)), Two)
        /\ \A k \in 1..Len(A) : QLt(OffDiagonalSum(A, k, 1), QAbs(A[k][k]))
        /\ ret.fd.ok

C10_Witness ==
    /\ Called("fd")
    /\ UnitFraction
    /\ Len(A) = 5
    /\ ret.fd.ok
    /\ QLt(OffDiagonalSum(A, 3, 1), QAbs(A[3][3]))

====
